---- MODULE Spec2Model ----
(***************************************************************************)
(* Model of chatbot_backend.py: the quiz session (class ChatbotAPI), the   *)
(* module-level collaborators it uses, and the Flask request handlers.     *)
(*                                                                         *)
(* Text is modelled as a sequence of one-character strings, so that the    *)
(* Python string operations the code relies on (strip, upper, in, split,   *)
(* replace, startswith) are computed character by character.               *)
(***************************************************************************)
EXTENDS Integers, Sequences, FiniteSets, TLC

(***************************************************************************)
(* Python str operations                                                   *)
(***************************************************************************)
LowerCase == <<"a","b","c","d","e","f","g","h","i","j","k","l","m",
               "n","o","p","q","r","s","t","u","v","w","x","y","z">>
UpperCase == <<"A","B","C","D","E","F","G","H","I","J","K","L","M",
               "N","O","P","Q","R","S","T","U","V","W","X","Y","Z">>

Whitespace == {" ", "\n", "\t", "\r"}

\* str.upper() on one character
UpperChar(c) ==
    IF \E i \in DOMAIN LowerCase : LowerCase[i] = c
    THEN UpperCase[CHOOSE i \in DOMAIN LowerCase : LowerCase[i] = c]
    ELSE c

\* str.upper()
Upper(s) == [i \in 1..Len(s) |-> UpperChar(s[i])]

\* s.startswith(p)
StartsWith(s, p) == Len(p) <= Len(s) /\ SubSeq(s, 1, Len(p)) = p

\* s[n:]
Drop(s, n) == SubSeq(s, n + 1, Len(s))

\* p in s
RECURSIVE Contains(_, _)
Contains(s, p) ==
    IF StartsWith(s, p) THEN TRUE
    ELSE IF s = <<>> THEN FALSE
    ELSE Contains(Tail(s), p)

\* s.lstrip()
RECURSIVE LStrip(_)
LStrip(s) ==
    IF s # <<>> /\ Head(s) \in Whitespace THEN LStrip(Tail(s)) ELSE s

\* s.rstrip()
RECURSIVE RStrip(_)
RStrip(s) ==
    IF s # <<>> /\ s[Len(s)] \in Whitespace
    THEN RStrip(SubSeq(s, 1, Len(s) - 1))
    ELSE s

\* s.strip()
Strip(s) == RStrip(LStrip(s))

\* s.replace(old, ""): every non-overlapping occurrence, leftmost first
RECURSIVE Remove(_, _)
Remove(s, old) ==
    IF s = <<>> THEN <<>>
    ELSE IF StartsWith(s, old) THEN Remove(Drop(s, Len(old)), old)
    ELSE <<Head(s)>> \o Remove(Tail(s), old)

\* s.split(sep): the list of the pieces between the occurrences of sep
RECURSIVE SplitFrom(_, _, _)
SplitFrom(s, sep, piece) ==
    IF s = <<>> THEN <<piece>>
    ELSE IF StartsWith(s, sep)
         THEN <<piece>> \o SplitFrom(Drop(s, Len(sep)), sep, <<>>)
         ELSE SplitFrom(Tail(s), sep, Append(piece, Head(s)))

Split(s, sep) == SplitFrom(s, sep, <<>>)

(***************************************************************************)
(* Literal texts of chatbot_backend.py                                     *)
(***************************************************************************)
\* the markers the code searches for
\* lines 183, 185: 'QUESTION:'
QUESTION_MARKER ==
    <<"Q","U","E","S","T","I","O","N",":">>
\* lines 183, 184: 'ANSWER:'
ANSWER_MARKER ==
    <<"A","N","S","W","E","R",":">>
\* lines 61-62: 'Question:'
QuestionLabel ==
    <<"Q","u","e","s","t","i","o","n",":">>
\* lines 81-82: 'Answer:'
AnswerLabel ==
    <<"A","n","s","w","e","r",":">>
\* line 111: 'CORRECT'
CORRECT ==
    <<"C","O","R","R","E","C","T">>
\* line 111: 'INCORRECT'
INCORRECT ==
    <<"I","N","C","O","R","R","E","C","T">>

\* fixed texts of the session
\* line 64: 'What is the recommended amount for an emergency fund?'
QuestionOnStop ==
    <<"W","h","a","t"," ","i","s"," ","t","h","e"," ","r","e","c","o","m",
      "m","e","n","d","e","d"," ","a","m","o","u","n","t"," ","f","o","r",
      " ","a","n"," ","e","m","e","r","g","e","n","c","y"," ","f","u","n",
      "d","?">>
\* line 66: 'What factors should you consider when choosing a credit card?'
QuestionOnError ==
    <<"W","h","a","t"," ","f","a","c","t","o","r","s"," ","s","h","o","u",
      "l","d"," ","y","o","u"," ","c","o","n","s","i","d","e","r"," ","w",
      "h","e","n"," ","c","h","o","o","s","i","n","g"," ","a"," ","c","r",
      "e","d","i","t"," ","c","a","r","d","?">>
\* lines 73, 94: 'No question available.'
NoQuestionAvailable ==
    <<"N","o"," ","q","u","e","s","t","i","o","n"," ","a","v","a","i","l",
      "a","b","l","e",".">>
\* line 84: 'Please refer to financial literacy resources for the correct answer.'
AnswerOnStop ==
    <<"P","l","e","a","s","e"," ","r","e","f","e","r"," ","t","o"," ","f",
      "i","n","a","n","c","i","a","l"," ","l","i","t","e","r","a","c","y",
      " ","r","e","s","o","u","r","c","e","s"," ","f","o","r"," ","t","h",
      "e"," ","c","o","r","r","e","c","t"," ","a","n","s","w","e","r",".">>
\* line 87: 'Unable to generate answer at this time.'
AnswerOnError ==
    <<"U","n","a","b","l","e"," ","t","o"," ","g","e","n","e","r","a","t",
      "e"," ","a","n","s","w","e","r"," ","a","t"," ","t","h","i","s"," ",
      "t","i","m","e",".">>
\* line 130: 'Error evaluating answer: '
ErrorEvaluatingAnswer ==
    <<"E","r","r","o","r"," ","e","v","a","l","u","a","t","i","n","g"," ",
      "a","n","s","w","e","r",":"," ">>
\* line 131: 'Answer not available'
AnswerNotAvailable ==
    <<"A","n","s","w","e","r"," ","n","o","t"," ","a","v","a","i","l","a",
      "b","l","e">>
\* line 150: 'Financial Resource'
DefaultTitle ==
    <<"F","i","n","a","n","c","i","a","l"," ","R","e","s","o","u","r","c",
      "e">>
\* line 151: '#'
DefaultLink ==
    <<"#">>
\* line 152: ''
DefaultDescription ==
    <<>>
\* line 166: "I apologize, but I'm having trouble answering that question right now. Please try again."
Apology ==
    <<"I"," ","a","p","o","l","o","g","i","z","e",","," ","b","u","t"," ",
      "I","'","m"," ","h","a","v","i","n","g"," ","t","r","o","u","b","l",
      "e"," ","a","n","s","w","e","r","i","n","g"," ","t","h","a","t"," ",
      "q","u","e","s","t","i","o","n"," ","r","i","g","h","t"," ","n","o",
      "w","."," ","P","l","e","a","s","e"," ","t","r","y"," ","a","g","a",
      "i","n",".">>
\* line 193: 'What factors should you consider when choosing a credit card?'
MalformedQuestion ==
    <<"W","h","a","t"," ","f","a","c","t","o","r","s"," ","s","h","o","u",
      "l","d"," ","y","o","u"," ","c","o","n","s","i","d","e","r"," ","w",
      "h","e","n"," ","c","h","o","o","s","i","n","g"," ","a"," ","c","r",
      "e","d","i","t"," ","c","a","r","d","?">>
\* line 194: 'When choosing a credit card, consider: annual fees, interest rates (APR), rewards programs, credit limit, accepted locations, customer service, and any special benefits or perks.'
MalformedAnswer ==
    <<"W","h","e","n"," ","c","h","o","o","s","i","n","g"," ","a"," ","c",
      "r","e","d","i","t"," ","c","a","r","d",","," ","c","o","n","s","i",
      "d","e","r",":"," ","a","n","n","u","a","l"," ","f","e","e","s",",",
      " ","i","n","t","e","r","e","s","t"," ","r","a","t","e","s"," ","(",
      "A","P","R",")",","," ","r","e","w","a","r","d","s"," ","p","r","o",
      "g","r","a","m","s",","," ","c","r","e","d","i","t"," ","l","i","m",
      "i","t",","," ","a","c","c","e","p","t","e","d"," ","l","o","c","a",
      "t","i","o","n","s",","," ","c","u","s","t","o","m","e","r"," ","s",
      "e","r","v","i","c","e",","," ","a","n","d"," ","a","n","y"," ","s",
      "p","e","c","i","a","l"," ","b","e","n","e","f","i","t","s"," ","o",
      "r"," ","p","e","r","k","s",".">>
\* line 199: 'What is an emergency fund and why is it important?'
FailedQuestion ==
    <<"W","h","a","t"," ","i","s"," ","a","n"," ","e","m","e","r","g","e",
      "n","c","y"," ","f","u","n","d"," ","a","n","d"," ","w","h","y"," ",
      "i","s"," ","i","t"," ","i","m","p","o","r","t","a","n","t","?">>
\* line 200: "An emergency fund is money set aside to cover unexpected expenses like medical bills, car repairs, or job loss. It's important because it provides financial security and prevents you from going into debt during emergencies."
FailedAnswer ==
    <<"A","n"," ","e","m","e","r","g","e","n","c","y"," ","f","u","n","d",
      " ","i","s"," ","m","o","n","e","y"," ","s","e","t"," ","a","s","i",
      "d","e"," ","t","o"," ","c","o","v","e","r"," ","u","n","e","x","p",
      "e","c","t","e","d"," ","e","x","p","e","n","s","e","s"," ","l","i",
      "k","e"," ","m","e","d","i","c","a","l"," ","b","i","l","l","s",",",
      " ","c","a","r"," ","r","e","p","a","i","r","s",","," ","o","r"," ",
      "j","o","b"," ","l","o","s","s","."," ","I","t","'","s"," ","i","m",
      "p","o","r","t","a","n","t"," ","b","e","c","a","u","s","e"," ","i",
      "t"," ","p","r","o","v","i","d","e","s"," ","f","i","n","a","n","c",
      "i","a","l"," ","s","e","c","u","r","i","t","y"," ","a","n","d"," ",
      "p","r","e","v","e","n","t","s"," ","y","o","u"," ","f","r","o","m",
      " ","g","o","i","n","g"," ","i","n","t","o"," ","d","e","b","t"," ",
      "d","u","r","i","n","g"," ","e","m","e","r","g","e","n","c","i","e",
      "s",".">>

\* fixed texts of the request handlers
\* lines 54, 168, 217: 'financial literacy'
DefaultTopic ==
    <<"f","i","n","a","n","c","i","a","l"," ","l","i","t","e","r","a","c",
      "y">>
\* line 234: 'Answer cannot be empty'
AnswerCannotBeEmpty ==
    <<"A","n","s","w","e","r"," ","c","a","n","n","o","t"," ","b","e"," ",
      "e","m","p","t","y">>
\* line 264: 'Chat reset successfully'
ChatResetSuccessfully ==
    <<"C","h","a","t"," ","r","e","s","e","t"," ","s","u","c","c","e","s",
      "s","f","u","l","l","y">>

(***************************************************************************)
(* Texts the collaborators and the clients supply                          *)
(***************************************************************************)
\* 'How much should you save?'
ScenarioQuestion ==
    <<"H","o","w"," ","m","u","c","h"," ","s","h","o","u","l","d"," ","y",
      "o","u"," ","s","a","v","e","?">>
\* 'At least 20% of income.'
ScenarioAnswer ==
    <<"A","t"," ","l","e","a","s","t"," ","2","0","%"," ","o","f"," ","i",
      "n","c","o","m","e",".">>
\* 'Why budget?'
Q2 ==
    <<"W","h","y"," ","b","u","d","g","e","t","?">>
\* 'To plan.'
A2 ==
    <<"T","o"," ","p","l","a","n",".">>
\* 'What is APR?'
Q3 ==
    <<"W","h","a","t"," ","i","s"," ","A","P","R","?">>
\* 'A yearly rate.'
A3 ==
    <<"A"," ","y","e","a","r","l","y"," ","r","a","t","e",".">>
\* 'Sure! '
Preamble ==
    <<"S","u","r","e","!"," ">>
\* 'budgeting'
Budgeting ==
    <<"b","u","d","g","e","t","i","n","g">>
\* 'CORRECT'
ReplyCorrect ==
    <<"C","O","R","R","E","C","T">>
\* 'INCORRECT, explanation'
ReplyIncorrectExplained ==
    <<"I","N","C","O","R","R","E","C","T",","," ","e","x","p","l","a","n",
      "a","t","i","o","n">>
\* 'correct! well done'
ReplyLowerCorrect ==
    <<"c","o","r","r","e","c","t","!"," ","w","e","l","l"," ","d","o","n",
      "e">>
\* 'Your answer is incorrect'
ReplyLowerIncorrect ==
    <<"Y","o","u","r"," ","a","n","s","w","e","r"," ","i","s"," ","i","n",
      "c","o","r","r","e","c","t">>
\* 'Maybe.\n'
ReplyNeither ==
    <<"M","a","y","b","e",".","\n">>
\* ' It depends. '
GeneralReply ==
    <<" ","I","t"," ","d","e","p","e","n","d","s","."," ">>
\* 'finish_reason: SAFETY'
BlockedText ==
    <<"f","i","n","i","s","h","_","r","e","a","s","o","n",":"," ","S","A",
      "F","E","T","Y">>
\* '503 timeout'
TimeoutText ==
    <<"5","0","3"," ","t","i","m","e","o","u","t">>
\* 'Loans 101'
ResourceTitle ==
    <<"L","o","a","n","s"," ","1","0","1">>
\* 'https://x.org/l'
ResourceLink ==
    <<"h","t","t","p","s",":","/","/","x",".","o","r","g","/","l">>
\* 'Loan basics'
ResourceDescription ==
    <<"L","o","a","n"," ","b","a","s","i","c","s">>
Sp == <<" ">>
Nl == <<"\n">>

\* Outcomes of one self.chat.send_message(...) call followed by .text: the
\* generated text, a content-filter stop, or any other failure.
Text(t) == [kind |-> "text", text |-> t]
Stop == [kind |-> "StopCandidateException", text |-> BlockedText]
Failure == [kind |-> "Exception", text |-> TimeoutText]
NotCalled == [kind |-> "not called", text |-> <<>>]

Failures == {Stop, Failure}

\* replies to the prompt of generate_question_with_answer
CombinedReplies ==
    { QUESTION_MARKER \o Sp \o ScenarioQuestion \o Nl
          \o ANSWER_MARKER \o Sp \o ScenarioAnswer,
      Nl \o QUESTION_MARKER \o Sp \o Q2 \o Nl
          \o ANSWER_MARKER \o Sp \o A2 \o Nl,
      QUESTION_MARKER \o Sp \o Nl \o ANSWER_MARKER \o Sp \o A2,
      ANSWER_MARKER \o Sp \o A2 \o Nl \o QUESTION_MARKER \o Sp \o Q2,
      Preamble \o QUESTION_MARKER \o Sp \o Q2 \o Nl
          \o ANSWER_MARKER \o Sp \o A2,
      QUESTION_MARKER \o Sp \o Q2 \o Nl \o ANSWER_MARKER \o Sp \o A2 \o Nl
          \o ANSWER_MARKER \o Sp \o A3,
      QUESTION_MARKER \o Sp \o Q2,
      ANSWER_MARKER \o Sp \o A2,
      QuestionLabel \o Sp \o Q2 \o Nl \o AnswerLabel \o Sp \o A2,
      <<>> }

\* replies to the prompt of generate_question
QuestionReplies == { Q3 \o Nl, QuestionLabel \o Sp \o Q3, <<>> }

\* replies to the prompt of generate_answer
AnswerReplies ==
    { Sp \o A3, AnswerLabel \o Sp \o A3,
      AnswerLabel \o Sp \o A3 \o Sp \o AnswerLabel, <<>> }

\* replies to the grading prompt of evaluate_answer
EvaluationReplies ==
    { ReplyCorrect, ReplyIncorrectExplained, ReplyLowerCorrect,
      ReplyLowerIncorrect, ReplyNeither, <<>> }

\* replies to the prompt of handle_general_question
GeneralReplies == { GeneralReply }

Topics == { DefaultTopic, Budgeting }
UserAnswers == { <<>>, Sp \o Nl, ScenarioAnswer }
GeneralQuestions == { Q3 }

Outcomes(replies) == { Text(t) : t \in replies } \cup Failures

\* Outcomes of sentence_model.encode(query_text)
Encodings == { "vector", "Exception" }

\* Metadata of a stored resource: a dict with any of the three fields
Metadatas ==
    { [title |-> ResourceTitle, link |-> ResourceLink,
       description |-> ResourceDescription],
      [title |-> ResourceTitle],
      [link |-> ResourceLink, description |-> ResourceDescription],
      <<>> }

\* Outcomes of a pinecone Index.query(..., top_k=1): the list of matches
\* (none or one, each with its metadata), or a failure
QueryResults ==
    { [kind |-> "matches", matches |-> <<>>], [kind |-> "Exception", matches |-> <<>>] }
    \cup { [kind |-> "matches", matches |-> <<md>>] : md \in Metadatas }

NoQuery == [kind |-> "not called", matches |-> <<>>]

(***************************************************************************)
(* Module-level names                                                      *)
(***************************************************************************)
\* The values the module-level name `index` takes
None == "None"
PineconeIndex == "pinecone.Index"
IndexRoute == "function index"

\* lines 28-44: index is the pinecone index when PINECONE_API_KEY is set and
\* the index can be opened, None otherwise
IndexAtStartup(configured) == IF configured THEN PineconeIndex ELSE None

\* lines 206-208: `def index()` binds the name index to the route function
IndexAfterRoutes(previous) == IndexRoute

\* truth value of the name index in `if index` / `if not index`
Truthy(ix) == ix # None

\* line 50: model.start_chat(history=[]); the history of a chat is modelled by
\* the number of exchanges it holds
start_chat == 0

\* lines 49-52
ChatbotAPI ==
    [chat |-> start_chat, current_question |-> <<>>, correct_answer |-> <<>>]

\* self.chat.send_message(prompt): a completed exchange is added to the history
send_message(chat, prompt, o) ==
    IF o.kind = "text" THEN chat + 1 ELSE chat

(***************************************************************************)
(* class ChatbotAPI.  Each method is an operator from the session `self`   *)
(* and the outcomes of the collaborator calls it makes to a record:        *)
(*   self      the session after the call                                  *)
(*   ret       the value returned (NoValue when an exception escapes)      *)
(*   exc       "none", or the kind of the exception that escapes           *)
(*   error     str(e) of the failure the method met, <<>> if none          *)
(*   sent      the prompts passed to send_message, in order                *)
(*   encoded   the texts passed to sentence_model.encode, in order         *)
(*   queries   the number of index.query calls                             *)
(*   answered  whether self.correct_answer was assigned                    *)
(***************************************************************************)
NoValue == [none |-> TRUE]

Returns(self, ret, sent, answered) ==
    [self |-> self, ret |-> ret, exc |-> "none", error |-> <<>>,
     sent |-> sent, encoded |-> <<>>, queries |-> 0, answered |-> answered]

Raises(self, o, sent, answered) ==
    [self |-> self, ret |-> NoValue, exc |-> o.kind, error |-> o.text,
     sent |-> sent, encoded |-> <<>>, queries |-> 0, answered |-> answered]

\* The prompts, by the name of the instruction and the values formatted in
QuestionPrompt(topic) ==
    [instruction |-> "question_instruction", topic |-> topic]
AnswerPrompt(question) ==
    [instruction |-> "answer_instruction", question |-> question]
EvaluationPrompt(question, user_answer, correct_answer) ==
    [instruction |-> "evaluation_instruction", question |-> question,
     user_answer |-> user_answer, correct_answer |-> correct_answer]
GeneralPrompt(question) ==
    [instruction |-> "instruction", question |-> question]
CombinedPrompt(topic) ==
    [instruction |-> "combined_instruction", topic |-> topic]

\* lines 60-62 and 80-82 with only the label at the start dropped
StripLabelLeading(text, label) ==
    LET stripped == Strip(text)
    IN  IF StartsWith(stripped, label)
        THEN Strip(Drop(stripped, Len(label)))
        ELSE stripped

\* lines 60-62 and 80-82: strip, then, if the text starts with the label,
\* replace the label (wherever it occurs) by "" and strip again
StripLabel(text, label) ==
    LET stripped == Strip(text)
    IN  IF StartsWith(stripped, label)
        THEN Strip(Remove(stripped, label))
        ELSE stripped

\* lines 54-69
generate_question(self, topic, o) ==
    LET prompt == QuestionPrompt(topic)
        question ==
            CASE o.kind = "text" -> StripLabel(o.text, QuestionLabel)
              [] o.kind = "StopCandidateException" -> QuestionOnStop
              [] OTHER -> QuestionOnError
    IN  Returns([self EXCEPT !.chat = send_message(@, prompt, o),
                             !.current_question = question],
                question, <<prompt>>, FALSE)

\* lines 72 and 93 tested on the stored answer instead of the question
NoQuestionTestsAnswer(self) == self.correct_answer = <<>>

\* lines 72 and 93: `if not self.current_question`
NoQuestion(self) == self.current_question = <<>>

\* lines 78-87 without the `except Exception` clause
AnswerFallbackStopOnly(o) ==
    CASE o.kind = "StopCandidateException" -> Text(AnswerOnStop)
      [] OTHER -> o

\* lines 78-87: the except clauses of generate_answer
AnswerFallback(o) ==
    CASE o.kind = "StopCandidateException" -> Text(AnswerOnStop)
      [] o.kind = "Exception" -> Text(AnswerOnError)
      [] OTHER -> o

\* lines 71-90
generate_answer(self, o) ==
    IF NoQuestion(self)
    THEN Returns(self, NoQuestionAvailable, <<>>, FALSE)
    ELSE LET prompt == AnswerPrompt(self.current_question)
             chat == send_message(self.chat, prompt, o)
             handled == AnswerFallback(o)
         IN  IF handled.kind # "text"
             THEN Raises([self EXCEPT !.chat = chat], handled, <<prompt>>, FALSE)
             ELSE LET correct_answer ==
                          IF o.kind = "text"
                          THEN StripLabel(o.text, AnswerLabel)
                          ELSE handled.text
                  IN  Returns([self EXCEPT !.chat = chat,
                                           !.correct_answer = correct_answer],
                              correct_answer, <<prompt>>, TRUE)

\* line 111 with the test for "INCORRECT" left out
IsCorrectOneTerm(evaluation_text) ==
    Contains(Upper(evaluation_text), CORRECT)

\* line 111
IsCorrect(evaluation_text) ==
    /\ Contains(Upper(evaluation_text), CORRECT)
    /\ ~Contains(Upper(evaluation_text), INCORRECT)

\* dict.get(key, default)
Get(dict, key, default) == IF key \in DOMAIN dict THEN dict[key] ELSE default

\* lines 147-153
ResourceOf(matches) ==
    IF matches # <<>>
    THEN LET top_match_metadata == matches[1]
         IN  [title |-> Get(top_match_metadata, "title", DefaultTitle),
              link |-> Get(top_match_metadata, "link", DefaultLink),
              description |->
                  Get(top_match_metadata, "description", DefaultDescription)]
    ELSE NoValue

\* lines 134-157.  ix is the value of the module-level name index; only a
\* pinecone index has a query method, on any other object index.query raises
\* AttributeError, which line 154 catches like any other failure.
get_relevant_resource(ix, query_text, emb, qr) ==
    IF ~Truthy(ix)
    THEN [ret |-> NoValue, exc |-> "none", encoded |-> <<>>, queries |-> 0]
    ELSE IF emb = "Exception"
    THEN [ret |-> NoValue, exc |-> "none", encoded |-> <<query_text>>,
          queries |-> 0]
    ELSE IF ix # PineconeIndex
    THEN [ret |-> NoValue, exc |-> "none", encoded |-> <<query_text>>,
          queries |-> 0]
    ELSE IF qr.kind = "Exception"
    THEN [ret |-> NoValue, exc |-> "none", encoded |-> <<query_text>>,
          queries |-> 1]
    ELSE [ret |-> ResourceOf(qr.matches), exc |-> "none",
          encoded |-> <<query_text>>, queries |-> 1]

\* lines 119-122: the lookup is made for an answer judged incorrect when the
\* name index is truthy
LooksUpResource(is_correct, ix) == ~is_correct /\ Truthy(ix)

\* lines 126-132 without the placeholder of line 131
EvaluationErrorStoredOnly(self, error) ==
    [is_correct |-> FALSE,
     message |-> ErrorEvaluatingAnswer \o error,
     correct_answer |-> self.correct_answer]

\* lines 126-132
EvaluationError(self, error) ==
    [is_correct |-> FALSE,
     message |-> ErrorEvaluatingAnswer \o error,
     correct_answer |->
         IF self.correct_answer # <<>> THEN self.correct_answer
         ELSE AnswerNotAvailable]

\* line 108 in a session that drops its question once it has been graded
AfterGradingQuestionDropped(self, prompt, oe) ==
    [self EXCEPT !.chat = send_message(@, prompt, oe),
                 !.current_question = <<>>]

\* line 108: the session once the grading call has been made
AfterGrading(self, prompt, oe) ==
    [self EXCEPT !.chat = send_message(@, prompt, oe)]

\* line 96 with the answer never found missing
AnswerMissingNever(self) == FALSE

\* line 96: `if not self.correct_answer`
AnswerMissing(self) == self.correct_answer = <<>>

\* lines 92-132.  oa is the outcome of the answer generation of line 97 (used
\* when the answer is missing), oe that of the grading call of line 108.
evaluate_answer(self, ix, user_answer, oa, oe, emb, qr) ==
    IF NoQuestion(self)
    THEN Returns(self,
                 [is_correct |-> FALSE, message |-> NoQuestionAvailable],
                 <<>>, FALSE)
    ELSE
    LET ga == IF AnswerMissing(self)
              THEN generate_answer(self, oa)
              ELSE Returns(self, NoValue, <<>>, FALSE)
        s1 == ga.self
        prompt == EvaluationPrompt(s1.current_question, user_answer,
                                   s1.correct_answer)
        s2 == AfterGrading(s1, prompt, oe)
        sent == ga.sent \o <<prompt>>
    IN  IF ga.exc # "none" THEN ga
        ELSE IF oe.kind # "text"
        THEN [Returns(s2, EvaluationError(s2, oe.text), sent, ga.answered)
                EXCEPT !.error = oe.text]
        ELSE
        LET evaluation_text == Strip(oe.text)
            is_correct == IsCorrect(evaluation_text)
            result == [is_correct |-> is_correct,
                       message |-> evaluation_text,
                       correct_answer |-> s2.correct_answer]
            lookup == IF LooksUpResource(is_correct, ix)
                      THEN get_relevant_resource(ix, s2.correct_answer, emb, qr)
                      ELSE [ret |-> NoValue, exc |-> "none",
                            encoded |-> <<>>, queries |-> 0]
            resource == lookup.ret
        IN  [Returns(s2,
                     IF resource # NoValue
                     THEN result @@ [resource |-> resource]
                     ELSE result,
                     sent, ga.answered)
                EXCEPT !.encoded = lookup.encoded, !.queries = lookup.queries]

\* lines 159-166 with the question asked kept as the current question
handle_general_question_storing(self, question, o) ==
    LET prompt == GeneralPrompt(question)
    IN  Returns([self EXCEPT !.chat = send_message(@, prompt, o),
                             !.current_question = question,
                             !.correct_answer = <<>>],
                IF o.kind = "text" THEN o.text ELSE Apology,
                <<prompt>>, FALSE)

\* lines 159-166
handle_general_question(self, question, o) ==
    LET prompt == GeneralPrompt(question)
    IN  Returns([self EXCEPT !.chat = send_message(@, prompt, o)],
                IF o.kind = "text" THEN o.text ELSE Apology,
                <<prompt>>, FALSE)

\* lines 193-194 with the answer of the other fixed pair
MalformedPairMixed ==
    [question |-> MalformedQuestion, answer |-> FailedAnswer]

\* lines 193-194: the fixed pair stored when a marker is missing
MalformedPair ==
    [question |-> MalformedQuestion, answer |-> MalformedAnswer]

\* lines 199-200: the fixed pair stored when the call fails
FailedPair ==
    [question |-> FailedQuestion, answer |-> FailedAnswer]

\* lines 184-186 with the answer part left unstripped
SplitPairUnstripped(response_text) ==
    LET parts == Split(response_text, ANSWER_MARKER)
    IN  [question |-> Strip(Remove(parts[1], QUESTION_MARKER)),
         answer |-> parts[2]]

\* lines 184-186
SplitPair(response_text) ==
    LET parts == Split(response_text, ANSWER_MARKER)
    IN  [question |-> Strip(Remove(parts[1], QUESTION_MARKER)),
         answer |-> Strip(parts[2])]

\* lines 183-195: the response parsed, or the fixed pair when a marker is
\* missing
ParseCombined(response_text) ==
    IF Contains(response_text, QUESTION_MARKER)
       /\ Contains(response_text, ANSWER_MARKER)
    THEN SplitPair(response_text)
    ELSE MalformedPair

\* lines 168-201
generate_question_with_answer(self, topic, o) ==
    LET prompt == CombinedPrompt(topic)
        pair == IF o.kind = "text"
                THEN ParseCombined(Strip(o.text))
                ELSE FailedPair
    IN  [Returns([self EXCEPT !.chat = send_message(@, prompt, o),
                              !.current_question = pair.question,
                              !.correct_answer = pair.answer],
                 pair.question, <<prompt>>, TRUE)
            EXCEPT !.error = IF o.kind = "text" THEN <<>> ELSE o.text]

(***************************************************************************)
(* Request handlers                                                        *)
(***************************************************************************)
Methods == { "POST", "OPTIONS" }

\* request.get_json() or {}: the JSON objects the clients send
TopicBodies == { <<>>, [topic |-> Budgeting] }
AnswerBodies == { <<>> } \cup { [answer |-> a] : a \in UserAnswers }
QuestionBodies == { <<>> } \cup { [question |-> q] : q \in GeneralQuestions }

\* `return '', 200` of the OPTIONS branch of every handler
Preflight == [status |-> 200, body |-> <<>>]

\* jsonify({...}) with the default status, and with a status given
Ok(body) == [status |-> 200, body |-> body]
Status(code, body) == [status |-> code, body |-> body]

\* the `except Exception as e` clause of every handler
ServerError(error) == Status(500, [success |-> FALSE, error |-> error])

(***************************************************************************)
(* State                                                                   *)
(***************************************************************************)
VARIABLES
    pinecone,     \* whether PINECONE_API_KEY was set and the index opened
    index,        \* the module-level name index
    chatbot,      \* the module-level session
    answer_for,   \* the question self.correct_answer was produced for
    op,           \* the operation just served, "idle" once its result is taken
    input,        \* its arguments and the outcomes of its collaborator calls
    out,          \* what the session method did and returned
    response,     \* the response of the request handler
    sessions,     \* requests served concurrently: the sessions made so far
    bound,        \* ... which of them the module-level name chatbot names
    gen,          \* ... the generate-question request
    sub,          \* ... the submit-answer request
    rst,          \* ... the reset request
    generations   \* ... the question/answer pairs produced together

vars == <<pinecone, index, chatbot, answer_for, op, input, out, response,
          sessions, bound, gen, sub, rst, generations>>

\* the variables of the requests served concurrently
threads == <<sessions, bound, gen, sub, rst, generations>>

\* The history of a chat grows with every exchange; the operations that call
\* the model are taken while it holds fewer than MaxTranscript exchanges.
MaxTranscript == 3

Room == chatbot.chat < MaxTranscript

\* In Spec the operations are served one at a time (a client that waits for
\* each result): the next one starts when the result of the last has been
\* taken.  SpecRace, below, interleaves three requests.
Idle == op = "idle"

NoCall ==
    [ret |-> NoValue, exc |-> "none", error |-> <<>>, sent |-> <<>>,
     encoded |-> <<>>, queries |-> 0]

Outcome(r) ==
    [ret |-> r.ret, exc |-> r.exc, error |-> r.error, sent |-> r.sent,
     encoded |-> r.encoded, queries |-> r.queries]

\* the outcomes of the collaborator calls an evaluation can make
AnswerOutcomes(self) ==
    IF self.current_question # <<>> /\ self.correct_answer = <<>>
    THEN Outcomes(AnswerReplies) ELSE { NotCalled }
GradingOutcomes(self) ==
    IF self.current_question # <<>>
    THEN Outcomes(EvaluationReplies) ELSE { NotCalled }
LookupOutcomes(oe) ==
    IF oe.kind = "text"
    THEN { <<"Exception", NoQuery>> }
         \cup { <<"vector", qr>> : qr \in QueryResults }
    ELSE { <<"not called", NoQuery>> }

\* a request that has not arrived
NoGenerate ==
    [pc |-> "start", self |-> 0, pair |-> [question |-> <<>>, answer |-> <<>>]]
NoSubmit ==
    [pc |-> "start", self |-> 0, user_answer |-> <<>>, asked |-> <<>>,
     generated |-> <<>>, question |-> <<>>, prompt |-> NoValue,
     oe |-> NotCalled, ret |-> NoValue, encoded |-> <<>>]
NoReset == [pc |-> "start", mid |-> FALSE]

Init ==
    /\ pinecone \in BOOLEAN
    /\ index = IndexAfterRoutes(IndexAtStartup(pinecone))
    /\ chatbot = ChatbotAPI
    /\ answer_for = <<>>
    /\ op = "idle"
    /\ input = <<>>
    /\ out = NoCall
    /\ response = NoValue
    /\ sessions = <<ChatbotAPI>>
    /\ bound = 1
    /\ gen = NoGenerate
    /\ sub = NoSubmit
    /\ rst = NoReset
    /\ generations = {}

\* A call of a session method on the module-level session
Call(name, in, r, resp) ==
    /\ chatbot' = r.self
    /\ answer_for' = IF r.answered THEN r.self.current_question ELSE answer_for
    /\ op' = name
    /\ input' = in
    /\ out' = Outcome(r)
    /\ response' = resp
    /\ UNCHANGED <<pinecone, index, threads>>

\* A request answered without touching the session
Answer(name, in, resp) ==
    /\ op' = name
    /\ input' = in
    /\ out' = NoCall
    /\ response' = resp
    /\ UNCHANGED <<pinecone, index, chatbot, answer_for, threads>>

(***************************************************************************)
(* The session methods called directly                                     *)
(***************************************************************************)
GenerateQuestion ==
    /\ Idle
    /\ Room
    /\ \E topic \in Topics, o \in Outcomes(QuestionReplies) :
          Call("generate_question", [topic |-> topic, o |-> o],
               generate_question(chatbot, topic, o), NoValue)

GenerateAnswer ==
    /\ Idle
    /\ Room
    /\ \E o \in Outcomes(AnswerReplies) :
          Call("generate_answer", [o |-> o],
               generate_answer(chatbot, o), NoValue)

EvaluateAnswer ==
    /\ Idle
    /\ Room
    /\ \E user_answer \in UserAnswers, oa \in AnswerOutcomes(chatbot),
          oe \in GradingOutcomes(chatbot) :
          \E lk \in LookupOutcomes(oe) :
             Call("evaluate_answer",
                  [user_answer |-> user_answer, oa |-> oa, oe |-> oe,
                   emb |-> lk[1], qr |-> lk[2]],
                  evaluate_answer(chatbot, index, user_answer, oa, oe,
                                  lk[1], lk[2]),
                  NoValue)

HandleGeneralQuestion ==
    /\ Idle
    /\ Room
    /\ \E question \in GeneralQuestions, o \in Outcomes(GeneralReplies) :
          Call("handle_general_question", [question |-> question, o |-> o],
               handle_general_question(chatbot, question, o), NoValue)

GenerateQuestionWithAnswer ==
    /\ Idle
    /\ Room
    /\ \E topic \in Topics, o \in Outcomes(CombinedReplies) :
          Call("generate_question_with_answer", [topic |-> topic, o |-> o],
               generate_question_with_answer(chatbot, topic, o), NoValue)

(***************************************************************************)
(* The request handlers                                                    *)
(***************************************************************************)
\* lines 210-222
api_generate_question ==
    /\ Idle
    /\ \E method \in Methods, data \in TopicBodies :
       IF method = "OPTIONS"
       THEN Answer("api_generate_question",
                   [method |-> method, data |-> data], Preflight)
       ELSE /\ Room
            /\ \E o \in Outcomes(CombinedReplies) :
                  LET topic == Get(data, "topic", DefaultTopic)
                      r == generate_question_with_answer(chatbot, topic, o)
                  IN  Call("api_generate_question",
                           [method |-> method, data |-> data, o |-> o], r,
                           IF r.exc = "none"
                           THEN Ok([success |-> TRUE, question |-> r.ret])
                           ELSE ServerError(r.error))

\* line 233 with the strip() left out
EmptyAnswerUnstripped(user_answer) == user_answer = <<>>

\* line 233: `if not user_answer.strip()`
EmptyAnswer(user_answer) == Strip(user_answer) = <<>>

\* lines 224-240
api_submit_answer ==
    /\ Idle
    /\ \E method \in Methods, data \in AnswerBodies :
       LET user_answer == Get(data, "answer", <<>>)
       IN  IF method = "OPTIONS"
           THEN Answer("api_submit_answer",
                       [method |-> method, data |-> data], Preflight)
           ELSE IF EmptyAnswer(user_answer)
           THEN Answer("api_submit_answer",
                       [method |-> method, data |-> data],
                       Status(400, [success |-> FALSE,
                                    error |-> AnswerCannotBeEmpty]))
           ELSE /\ Room
                /\ \E oa \in AnswerOutcomes(chatbot),
                      oe \in GradingOutcomes(chatbot) :
                      \E lk \in LookupOutcomes(oe) :
                         LET r == evaluate_answer(chatbot, index, user_answer,
                                                  oa, oe, lk[1], lk[2])
                         IN  Call("api_submit_answer",
                                  [method |-> method, data |-> data,
                                   oa |-> oa, oe |-> oe,
                                   emb |-> lk[1], qr |-> lk[2]], r,
                                  IF r.exc = "none"
                                  THEN Ok([success |-> TRUE,
                                           evaluation |-> r.ret])
                                  ELSE ServerError(r.error))

\* lines 242-254
api_ask_question ==
    /\ Idle
    /\ \E method \in Methods, data \in QuestionBodies :
       IF method = "OPTIONS"
       THEN Answer("api_ask_question",
                   [method |-> method, data |-> data], Preflight)
       ELSE /\ Room
            /\ \E o \in Outcomes(GeneralReplies) :
                  LET question == Get(data, "question", <<>>)
                      r == handle_general_question(chatbot, question, o)
                  IN  Call("api_ask_question",
                           [method |-> method, data |-> data, o |-> o], r,
                           IF r.exc = "none"
                           THEN Ok([success |-> TRUE, response |-> r.ret])
                           ELSE ServerError(r.error))

\* line 263 as a reset that clears the fields of the session in place and
\* leaves its chat
ClearedChatbot ==
    [chatbot EXCEPT !.current_question = <<>>, !.correct_answer = <<>>]

\* line 263: chatbot = ChatbotAPI()
NewChatbot == ChatbotAPI

\* lines 256-267: a POST binds the module-level name chatbot to a new session
api_reset_chat ==
    /\ Idle
    /\ \E method \in Methods :
       IF method = "OPTIONS"
       THEN Answer("api_reset_chat", [method |-> method], Preflight)
       ELSE /\ chatbot' = NewChatbot
            /\ answer_for' = <<>>
            /\ op' = "api_reset_chat"
            /\ input' = [method |-> method]
            /\ out' = NoCall
            /\ response' = Ok([success |-> TRUE,
                               message |-> ChatResetSuccessfully])
            /\ UNCHANGED <<pinecone, index, threads>>

\* The caller takes the return value (lines 69, 90, 124, 132, 164-166, 191-201)
\* or the client the response (the `return jsonify(...)` of a handler).
Return ==
    /\ ~Idle
    /\ op' = "idle"
    /\ input' = <<>>
    /\ out' = NoCall
    /\ response' = NoValue
    /\ UNCHANGED <<pinecone, index, chatbot, answer_for, threads>>

Next ==
    \/ Return
    \/ GenerateQuestion
    \/ GenerateAnswer
    \/ EvaluateAnswer
    \/ HandleGeneralQuestion
    \/ GenerateQuestionWithAnswer
    \/ api_generate_question
    \/ api_submit_answer
    \/ api_ask_question
    \/ api_reset_chat

Spec == Init /\ [][Next]_vars

(***************************************************************************)
(* Requests served concurrently                                           *)
(*                                                                         *)
(* app.run (line 269) serves each request in a thread of its own and the  *)
(* code takes no lock: a generate-question, a submit-answer and a reset   *)
(* request are interleaved statement by statement.  A request evaluates   *)
(* the module-level name chatbot once, in its call expression (lines 218, *)
(* 236), and the method runs on that object (self); line 263 makes a new  *)
(* object and rebinds the name.  sessions holds the objects in the order  *)
(* they were made, bound the position of the one chatbot names.           *)
(***************************************************************************)
\* the sessions the requests can find: a new one, and one holding the pair of
\* an earlier generate-question request
Sessions ==
    { ChatbotAPI,
      [chat |-> 1, current_question |-> ScenarioQuestion,
       correct_answer |-> ScenarioAnswer] }

\* the outcomes of the model calls of the three requests
RaceCombinedOutcomes ==
    { Text(Nl \o QUESTION_MARKER \o Sp \o Q2 \o Nl
              \o ANSWER_MARKER \o Sp \o A2 \o Nl),
      Failure }
RaceAnswerOutcomes == { Text(AnswerLabel \o Sp \o A3), Stop }
RaceGradingOutcomes ==
    { Text(ReplyCorrect), Text(ReplyIncorrectExplained), Failure }

InitRace ==
    /\ pinecone \in BOOLEAN
    /\ index = IndexAfterRoutes(IndexAtStartup(pinecone))
    /\ chatbot \in Sessions
    /\ answer_for = chatbot.current_question
    /\ op = "idle"
    /\ input = <<>>
    /\ out = NoCall
    /\ response = NoValue
    /\ sessions = <<chatbot>>
    /\ bound = 1
    /\ gen = NoGenerate
    /\ sub = [NoSubmit EXCEPT !.user_answer = ScenarioAnswer]
    /\ rst = NoReset
    /\ generations =
          IF chatbot.current_question = <<>> THEN {}
          ELSE { [question |-> chatbot.current_question,
                  answer |-> chatbot.correct_answer] }

\* self looked up again through the module-level name at every use
SelfRebound(called_on, named_now) == named_now

\* lines 218 and 236: `chatbot.method(...)` reads the name once; self is the
\* object the method was called on, whatever chatbot names later
Self(called_on, named_now) == called_on

\* the position in sessions of the object a request runs on
Me(r) == Self(r.self, bound)

\* A step of a request: the sessions after it and the object chatbot names
Step(s, b) ==
    /\ sessions' = s
    /\ bound' = b
    /\ chatbot' = s[b]
    /\ UNCHANGED <<pinecone, index, answer_for, op, input, out, response>>

\* line 218: chatbot.generate_question_with_answer(topic)
GenerateCalled ==
    /\ gen.pc = "start"
    /\ gen' = [gen EXCEPT !.pc = "180", !.self = bound]
    /\ Step(sessions, bound)
    /\ UNCHANGED <<sub, rst, generations>>

\* lines 180-186 (or 193-194, 199-200): the model call and the pair to store
GenerateSent ==
    /\ gen.pc = "180"
    /\ \E o \in RaceCombinedOutcomes :
          LET pair == IF o.kind = "text"
                      THEN ParseCombined(Strip(o.text))
                      ELSE FailedPair
              prompt == CombinedPrompt(DefaultTopic)
          IN  /\ gen' = [gen EXCEPT !.pc = "188", !.pair = pair]
              /\ generations' = generations \cup { pair }
              /\ Step([sessions EXCEPT ![Me(gen)].chat =
                          send_message(@, prompt, o)], bound)
    /\ UNCHANGED <<sub, rst>>

\* line 188 (193, 199): self.current_question = ...
GenerateStoresQuestion ==
    /\ gen.pc = "188"
    /\ gen' = [gen EXCEPT !.pc = "189"]
    /\ Step([sessions EXCEPT ![Me(gen)].current_question = gen.pair.question],
            bound)
    /\ UNCHANGED <<sub, rst, generations>>

\* line 189 (194, 200): self.correct_answer = ..., and the return
GenerateStoresAnswer ==
    /\ gen.pc = "189"
    /\ gen' = [gen EXCEPT !.pc = "done"]
    /\ Step([sessions EXCEPT ![Me(gen)].correct_answer = gen.pair.answer],
            bound)
    /\ UNCHANGED <<sub, rst, generations>>

\* A step of the submit-answer request that changes no session
SubmitStep(next) ==
    /\ sub' = next
    /\ Step(sessions, bound)
    /\ UNCHANGED <<gen, rst, generations>>

\* line 236: chatbot.evaluate_answer(user_answer)
SubmitCalled ==
    /\ sub.pc = "start"
    /\ SubmitStep([sub EXCEPT !.pc = "93", !.self = bound])

\* lines 93-94
SubmitTestsQuestion ==
    /\ sub.pc = "93"
    /\ SubmitStep(IF NoQuestion(sessions[Me(sub)])
                  THEN [sub EXCEPT !.pc = "done",
                                   !.ret = [is_correct |-> FALSE,
                                            message |-> NoQuestionAvailable]]
                  ELSE [sub EXCEPT !.pc = "96"])

\* line 96
SubmitTestsAnswer ==
    /\ sub.pc = "96"
    /\ SubmitStep(IF AnswerMissing(sessions[Me(sub)])
                  THEN [sub EXCEPT !.pc = "72"]
                  ELSE [sub EXCEPT !.pc = "100"])

\* lines 72-73 of the generate_answer called at line 97
AnswerTestsQuestion ==
    /\ sub.pc = "72"
    /\ SubmitStep(IF NoQuestion(sessions[Me(sub)])
                  THEN [sub EXCEPT !.pc = "100"]
                  ELSE [sub EXCEPT !.pc = "75"])

\* line 75: the question is read into the prompt
AnswerReadsQuestion ==
    /\ sub.pc = "75"
    /\ SubmitStep([sub EXCEPT !.pc = "79",
                              !.asked = sessions[Me(sub)].current_question])

\* lines 79-87: the model call and the answer to store
AnswerSent ==
    /\ sub.pc = "79"
    /\ \E oa \in RaceAnswerOutcomes :
          LET prompt == AnswerPrompt(sub.asked)
              correct_answer ==
                  IF oa.kind = "text" THEN StripLabel(oa.text, AnswerLabel)
                  ELSE AnswerFallback(oa).text
          IN  /\ sub' = [sub EXCEPT !.pc = "89", !.generated = correct_answer]
              /\ generations' =
                    generations \cup { [question |-> sub.asked,
                                        answer |-> correct_answer] }
              /\ Step([sessions EXCEPT ![Me(sub)].chat =
                          send_message(@, prompt, oa)], bound)
    /\ UNCHANGED <<gen, rst>>

\* line 89: self.correct_answer = correct_answer, and the return
AnswerStores ==
    /\ sub.pc = "89"
    /\ sub' = [sub EXCEPT !.pc = "100"]
    /\ Step([sessions EXCEPT ![Me(sub)].correct_answer = sub.generated],
            bound)
    /\ UNCHANGED <<gen, rst, generations>>

\* line 100: the question is read into the grading prompt
SubmitReadsQuestion ==
    /\ sub.pc = "100"
    /\ SubmitStep([sub EXCEPT !.pc = "102",
                              !.question = sessions[Me(sub)].current_question])

\* line 102: the stored answer is read into the grading prompt
SubmitReadsAnswer ==
    /\ sub.pc = "102"
    /\ SubmitStep([sub EXCEPT
                     !.pc = "108",
                     !.prompt =
                        EvaluationPrompt(sub.question, sub.user_answer,
                                         sessions[Me(sub)].correct_answer)])

\* line 108: the grading call
SubmitSent ==
    /\ sub.pc = "108"
    /\ \E oe \in RaceGradingOutcomes :
          /\ sub' = [sub EXCEPT !.oe = oe,
                                !.pc = IF oe.kind = "text" THEN "109"
                                       ELSE "127"]
          /\ Step([sessions EXCEPT ![Me(sub)] =
                      AfterGrading(@, sub.prompt, oe)], bound)
    /\ UNCHANGED <<gen, rst, generations>>

\* lines 109-117: the verdict and the result, with the answer stored now
SubmitBuildsResult ==
    /\ sub.pc = "109"
    /\ LET evaluation_text == Strip(sub.oe.text)
           is_correct == IsCorrect(evaluation_text)
           result == [is_correct |-> is_correct,
                      message |-> evaluation_text,
                      correct_answer |-> sessions[Me(sub)].correct_answer]
       IN  SubmitStep([sub EXCEPT
                          !.ret = result,
                          !.pc = IF LooksUpResource(is_correct, index)
                                 THEN "120" ELSE "done"])

\* lines 119-124: the lookup, for the answer stored now
SubmitLooksUp ==
    /\ sub.pc = "120"
    /\ \E emb \in Encodings :
       \E qr \in IF index = PineconeIndex THEN QueryResults ELSE { NoQuery } :
          LET lookup == get_relevant_resource(
                           index, sessions[Me(sub)].correct_answer, emb, qr)
          IN  SubmitStep([sub EXCEPT
                             !.pc = "done",
                             !.encoded = lookup.encoded,
                             !.ret = IF lookup.ret # NoValue
                                     THEN @ @@ [resource |-> lookup.ret]
                                     ELSE @])

\* lines 126-132
SubmitFails ==
    /\ sub.pc = "127"
    /\ SubmitStep([sub EXCEPT
                     !.pc = "done",
                     !.ret = EvaluationError(sessions[Me(sub)], sub.oe.text)])

\* line 263: chatbot = ChatbotAPI().  mid records whether the evaluation was
\* in progress.
ResetRebinds ==
    /\ rst.pc = "start"
    /\ rst' = [pc |-> "done", mid |-> sub.pc \notin { "start", "done" }]
    /\ Step(Append(sessions, NewChatbot), Len(sessions) + 1)
    /\ UNCHANGED <<gen, sub, generations>>

NextRace ==
    \/ GenerateCalled
    \/ GenerateSent
    \/ GenerateStoresQuestion
    \/ GenerateStoresAnswer
    \/ SubmitCalled
    \/ SubmitTestsQuestion
    \/ SubmitTestsAnswer
    \/ AnswerTestsQuestion
    \/ AnswerReadsQuestion
    \/ AnswerSent
    \/ AnswerStores
    \/ SubmitReadsQuestion
    \/ SubmitReadsAnswer
    \/ SubmitSent
    \/ SubmitBuildsResult
    \/ SubmitLooksUp
    \/ SubmitFails
    \/ ResetRebinds

SpecRace == InitRace /\ [][NextRace]_vars

(***************************************************************************)
(* Properties                                                              *)
(***************************************************************************)
\* evaluate_answer has just been called, directly or by the submit handler
Evaluated ==
    /\ op \in { "evaluate_answer", "api_submit_answer" }
    /\ "oe" \in DOMAIN input

\* ... and the grading call returned a reply
Graded == Evaluated /\ input.oe.kind = "text"

\* generate_question_with_answer has just been called, directly or by the
\* generate handler
Combined ==
    /\ op \in { "generate_question_with_answer", "api_generate_question" }
    /\ "o" \in DOMAIN input

NoCollaboratorCall(o) ==
    o.sent = <<>> /\ o.encoded = <<>> /\ o.queries = 0

\* w occurs in s
Occurs(s, w) ==
    \E i \in 1..(Len(s) + 1) :
       i + Len(w) - 1 <= Len(s) /\ SubSeq(s, i, i + Len(w) - 1) = w

\* C1: an evaluate_answer call on a session whose current_question is empty
\* returns {is_correct: False, message: "No question available."}, whatever
\* the user's answer, and calls neither the model, nor the embedding, nor the
\* index.
C1_NoQuestionShortCircuit ==
    [][ (chatbot.current_question = <<>> /\ Evaluated')
        => /\ out'.exc = "none"
           /\ out'.ret = [is_correct |-> FALSE, message |-> NoQuestionAvailable]
           /\ NoCollaboratorCall(out') ]_vars

C1_Witness ==
    /\ op = "evaluate_answer"
    /\ input.user_answer = ScenarioAnswer
    /\ chatbot.current_question = <<>>
    /\ chatbot.correct_answer # <<>>
    /\ out.ret.message = NoQuestionAvailable

\* C2: is_correct is true exactly when the uppercased grading reply contains
\* "CORRECT" and does not contain "INCORRECT"; "CORRECT" and "correct! well
\* done" are judged correct, "INCORRECT, explanation", "Your answer is
\* incorrect" and the empty reply incorrect.
C2_DecisionRule ==
    Graded =>
       LET reply == input.oe.text
           is_correct == out.ret.is_correct
       IN  /\ is_correct <=> ( /\ Occurs(Upper(reply), CORRECT)
                               /\ ~Occurs(Upper(reply), INCORRECT) )
           /\ reply = ReplyCorrect => is_correct
           /\ reply = ReplyIncorrectExplained => ~is_correct
           /\ reply = ReplyLowerCorrect => is_correct
           /\ reply = ReplyLowerIncorrect => ~is_correct
           /\ reply = <<>> => ~is_correct

C2_Witness ==
    /\ Graded
    /\ input.oe.text = ReplyLowerIncorrect
    /\ ~out.ret.is_correct

\* C3 (as claimed): a resource lookup (an embedding call or an index query)
\* is made during evaluate_answer exactly when the answer was judged
\* incorrect and the index collaborator was configured at start-up.
C3_LookupIffIncorrectAndConfigured ==
    Graded =>
       ( (out.encoded # <<>> \/ out.queries > 0)
         <=> (~out.ret.is_correct /\ pinecone) )

\* C4 (as claimed): after generate_question_with_answer returns,
\* current_question is non-empty, whatever the model call did.
C4_NeverQuestionless ==
    Combined => chatbot.current_question # <<>>

\* the positions at which w occurs in s
Positions(s, w) ==
    { i \in 1..Len(s) :
         i + Len(w) - 1 <= Len(s) /\ SubSeq(s, i, i + Len(w) - 1) = w }

First(s, w) ==
    CHOOSE i \in Positions(s, w) : \A j \in Positions(s, w) : i <= j

\* the text of s after the first w, and before the first w
After(s, w) ==
    IF Positions(s, w) = {} THEN <<>>
    ELSE SubSeq(s, First(s, w) + Len(w), Len(s))
Before(s, w) ==
    IF Positions(s, w) = {} THEN s
    ELSE SubSeq(s, 1, First(s, w) - 1)

\* s without the whitespace at its two ends
Trimmed(s) ==
    LET inked == { i \in 1..Len(s) : s[i] \notin Whitespace }
    IN  IF inked = {} THEN <<>>
        ELSE SubSeq(s, CHOOSE i \in inked : \A j \in inked : i <= j,
                       CHOOSE i \in inked : \A j \in inked : j <= i)

\* the pair C5 describes: the text between the two markers and the text
\* after "ANSWER:", both trimmed
MarkedQuestion(text) ==
    Trimmed(Before(After(text, QUESTION_MARKER), ANSWER_MARKER))
MarkedAnswer(text) == Trimmed(After(text, ANSWER_MARKER))

HasBothMarkers(text) ==
    Occurs(text, QUESTION_MARKER) /\ Occurs(text, ANSWER_MARKER)

\* a response in the format the prompt asks for: "QUESTION:" first, then
\* "ANSWER:", each once
WellFormed(text) ==
    /\ StartsWith(Trimmed(text), QUESTION_MARKER)
    /\ Cardinality(Positions(text, QUESTION_MARKER)) = 1
    /\ Cardinality(Positions(text, ANSWER_MARKER)) = 1

StoresMarkedPair ==
    /\ chatbot.current_question = MarkedQuestion(input.o.text)
    /\ chatbot.correct_answer = MarkedAnswer(input.o.text)
    /\ out.ret = chatbot.current_question

\* C5 (as claimed): for every response holding both markers, the stored
\* question is the trimmed text between "QUESTION:" and "ANSWER:", the stored
\* answer the trimmed text after "ANSWER:" to the end of the response, and
\* the stored question is returned.
C5_AnyMarkedResponse ==
    (Combined /\ input.o.kind = "text" /\ HasBothMarkers(input.o.text))
       => StoresMarkedPair

\* C5 (amended): the same, for the responses that begin (after trimming) with
\* "QUESTION:" and hold each marker exactly once.
C5_WellFormedResponse ==
    (Combined /\ input.o.kind = "text" /\ WellFormed(input.o.text))
       => StoresMarkedPair

C5_Witness ==
    /\ Combined
    /\ input.o.kind = "text"
    /\ WellFormed(input.o.text)
    /\ input.topic = Budgeting
    /\ chatbot.current_question = ScenarioQuestion
    /\ chatbot.correct_answer = ScenarioAnswer
    /\ out.ret = ScenarioQuestion

\* C6: a response lacking "QUESTION:" or "ANSWER:" makes the session store
\* the one fixed pair of lines 193-194 and return its question, after a
\* single model call, whatever the topic, the response and the session were.
C6_MalformedFallsBack ==
    (Combined /\ input.o.kind = "text" /\ ~HasBothMarkers(input.o.text))
       => /\ chatbot.current_question = MalformedQuestion
          /\ chatbot.correct_answer = MalformedAnswer
          /\ out.ret = MalformedQuestion
          /\ out.exc = "none"
          /\ Len(out.sent) = 1

C6_Witness ==
    /\ Combined
    /\ input.o = Text(ANSWER_MARKER \o Sp \o A2)
    /\ chatbot.chat > 1
    /\ chatbot.current_question = MalformedQuestion
    /\ chatbot.correct_answer = MalformedAnswer

\* C7 (as claimed): a non-empty stored answer is the answer produced for the
\* stored question; no operation replaces the question and leaves the answer
\* of an earlier question.
C7_AnswerBelongsToQuestion ==
    (chatbot.current_question # <<>> /\ chatbot.correct_answer # <<>>)
       => answer_for = chatbot.current_question

ResetDone == op = "api_reset_chat" /\ input.method = "POST"

\* C8: a reset leaves a session with an empty question, an empty answer and
\* an empty transcript, and on such a session (as on a new one) evaluate_answer
\* returns {is_correct: False, message: "No question available."} without a
\* collaborator call.
C8_ResetIsFresh ==
    [][ /\ ResetDone' =>
           /\ chatbot'.current_question = <<>>
           /\ chatbot'.correct_answer = <<>>
           /\ chatbot'.chat = 0
           /\ chatbot' = ChatbotAPI
        /\ (chatbot = ChatbotAPI /\ Evaluated') =>
           /\ out'.ret = [is_correct |-> FALSE, message |-> NoQuestionAvailable]
           /\ out'.exc = "none"
           /\ NoCollaboratorCall(out')
           /\ chatbot' = ChatbotAPI ]_vars

C8_Witness ==
    /\ ResetDone
    /\ response.status = 200
    /\ chatbot = ChatbotAPI
    /\ answer_for = <<>>

\* C9: no session operation lets a failure of a collaborator escape: each
\* returns a value, evaluate_answer a result object, and no handler answers
\* with a server error.
C9_NeverRaises ==
    /\ out.exc = "none"
    /\ (~Idle /\ "method" \notin DOMAIN input) => out.ret # NoValue
    /\ Evaluated => "is_correct" \in DOMAIN out.ret
    /\ response # NoValue => response.status # 500

C9_Witness ==
    /\ Evaluated
    /\ input.oa \in Failures
    /\ input.oe \in Failures
    /\ out.exc = "none"
    /\ ~out.ret.is_correct

\* C10 (as claimed): an answer judged incorrect, with the index collaborator
\* configured and a query that returns a match, yields a result whose
\* resource holds the title, link and description of the first match, a
\* missing field replaced by "Financial Resource", "#" and "".
C10_ResourceAttached ==
    ( /\ Graded
      /\ ~out.ret.is_correct
      /\ pinecone
      /\ input.emb = "vector"
      /\ input.qr.kind = "matches"
      /\ input.qr.matches # <<>> )
    => /\ "resource" \in DOMAIN out.ret
       /\ LET md == input.qr.matches[1]
          IN  out.ret.resource =
                 [title |-> IF "title" \in DOMAIN md THEN md.title
                            ELSE DefaultTitle,
                  link |-> IF "link" \in DOMAIN md THEN md.link
                           ELSE DefaultLink,
                  description |-> IF "description" \in DOMAIN md
                                  THEN md.description
                                  ELSE DefaultDescription]


\* C11: a submit-answer request whose answer is empty or only whitespace is
\* answered 400 {success: False, error: "Answer cannot be empty"}; the
\* session (question, answer, transcript) is as before, evaluate_answer is not
\* called and no collaborator is.
C11_EmptyAnswerRejected ==
    [][ ( /\ op' = "api_submit_answer"
          /\ input'.method = "POST"
          /\ Trimmed(IF "answer" \in DOMAIN input'.data
                     THEN input'.data.answer ELSE <<>>) = <<>> )
        => /\ response' = [status |-> 400,
                           body |-> [success |-> FALSE,
                                     error |-> AnswerCannotBeEmpty]]
           /\ chatbot' = chatbot
           /\ answer_for' = answer_for
           /\ out' = NoCall ]_vars

C11_Witness ==
    /\ op = "api_submit_answer"
    /\ input.method = "POST"
    /\ input.data = [answer |-> Sp \o Nl]
    /\ response.status = 400
    /\ chatbot.current_question # <<>>
    /\ chatbot.chat > 0

\* a submit-answer request has been answered with success
SubmitSucceeded ==
    /\ op = "api_submit_answer"
    /\ input.method = "POST"
    /\ response.status = 200
    /\ "evaluation" \in DOMAIN response.body

\* C12 (as claimed): the evaluation of every successful submit-answer response
\* holds is_correct, message and correct_answer, whatever the session state.
C12_EvaluationComplete ==
    SubmitSucceeded =>
       { "is_correct", "message", "correct_answer" }
          \subseteq DOMAIN response.body.evaluation

\* handle_general_question has just been called, directly or by the ask
\* handler
Asked ==
    /\ op \in { "handle_general_question", "api_ask_question" }
    /\ "o" \in DOMAIN input

\* C13: handle_general_question leaves current_question and the stored answer
\* as they were, whether the model call returns (its text is returned) or
\* fails (the fixed apology is returned).
C13_GeneralQuestionFrame ==
    [][ Asked' =>
          /\ chatbot'.current_question = chatbot.current_question
          /\ chatbot'.correct_answer = chatbot.correct_answer
          /\ answer_for' = answer_for
          /\ out'.ret = IF input'.o.kind = "text" THEN input'.o.text
                        ELSE Apology ]_vars

C13_Witness ==
    /\ op = "handle_general_question"
    /\ input.question = Q3
    /\ input.o \in Failures
    /\ out.ret = Apology
    /\ chatbot.current_question = ScenarioQuestion
    /\ chatbot.correct_answer = ScenarioAnswer

\* the answer the user gave to the evaluation just made
UserAnswer ==
    IF "user_answer" \in DOMAIN input THEN input.user_answer
    ELSE input.data.answer

\* The model calls of the evaluation just made, in order, are those of a
\* session that held question and answer on entry: the answer generation
\* first when the answer was empty, and then the grading call, whose prompt
\* holds the answer stored by now; with an answer on entry the grading call
\* alone, and the answer is kept.
CallsInOrder(question, answer) ==
    IF answer = <<>>
    THEN /\ out'.sent =
               << AnswerPrompt(question),
                  EvaluationPrompt(question, UserAnswer',
                                   chatbot'.correct_answer) >>
         /\ answer_for' = question
    ELSE /\ out'.sent = << EvaluationPrompt(question, UserAnswer', answer) >>
         /\ chatbot'.correct_answer = answer
         /\ answer_for' = answer_for

\* C14 (as claimed): in an evaluation with a non-empty question, an empty
\* stored answer is generated by one model call made before the grading call,
\* and the grading prompt and the returned correct_answer hold the answer
\* that call stored; a non-empty stored answer means the grading call is the
\* only model call.
C14_ReturnsStoredAnswer ==
    [][ (Evaluated' /\ chatbot.current_question # <<>>)
        => /\ CallsInOrder(chatbot.current_question, chatbot.correct_answer)
           /\ out'.ret.correct_answer = chatbot'.correct_answer ]_vars

\* C14 (amended): as above, but the returned correct_answer is the fixed
\* placeholder "Answer not available" when the answer stored is empty and
\* the grading call fails.
C14_ReturnsStoredAnswerOrPlaceholder ==
    [][ (Evaluated' /\ chatbot.current_question # <<>>)
        => /\ CallsInOrder(chatbot.current_question, chatbot.correct_answer)
           /\ out'.ret.correct_answer =
                 IF chatbot'.correct_answer = <<>> /\ input'.oe.kind # "text"
                 THEN AnswerNotAvailable
                 ELSE chatbot'.correct_answer ]_vars

C14_Witness ==
    /\ op = "evaluate_answer"
    /\ input.oa = Text(AnswerLabel \o Sp \o A3)
    /\ input.oe = Text(ReplyCorrect)
    /\ Len(out.sent) = 2
    /\ out.sent[2].correct_answer = A3
    /\ out.ret.correct_answer = A3
    /\ chatbot.correct_answer = A3

\* generate_answer has just been called on a session with a question,
\* directly or by an evaluation that found the answer missing; AnswerReply is
\* the outcome of its model call
AnswerGenerated ==
    \/ op = "generate_answer"
    \/ Evaluated /\ input.oa.kind # "not called"
AnswerReply == IF op = "generate_answer" THEN input.o ELSE input.oa

\* text trimmed and without "Answer:" at its start
LeadingLabelRemoved(text) ==
    LET t == Trimmed(text)
        n == Len(AnswerLabel)
    IN  IF Len(t) >= n /\ SubSeq(t, 1, n) = AnswerLabel
        THEN Trimmed(SubSeq(t, n + 1, Len(t)))
        ELSE t

\* s with every occurrence of w taken out, from the left
RECURSIVE Without(_, _)
Without(s, w) ==
    IF Positions(s, w) = {} THEN s
    ELSE Before(s, w) \o Without(After(s, w), w)

\* text trimmed and, if it then starts with "Answer:", without any "Answer:"
AllLabelsRemoved(text) ==
    LET t == Trimmed(text)
        n == Len(AnswerLabel)
    IN  IF Len(t) >= n /\ SubSeq(t, 1, n) = AnswerLabel
        THEN Trimmed(Without(t, AnswerLabel))
        ELSE t

\* generate_answer on a session without a question: the fixed text, no model
\* call, nothing changed
AnswerNeedsQuestion ==
    (op' = "generate_answer" /\ chatbot.current_question = <<>>)
       => /\ out'.ret = NoQuestionAvailable
          /\ NoCollaboratorCall(out')
          /\ chatbot' = chatbot
          /\ answer_for' = answer_for

\* generate_answer on a session with a question makes one model call, stores
\* a fixed sentence for each kind of failure and stored(text) for a reply,
\* and returns what it stored
AnswerStored(stored(_)) ==
    (AnswerGenerated' /\ chatbot.current_question # <<>>)
       => /\ out'.sent[1] = AnswerPrompt(chatbot.current_question)
          /\ chatbot'.correct_answer =
                CASE AnswerReply'.kind = "StopCandidateException" -> AnswerOnStop
                  [] AnswerReply'.kind = "Exception" -> AnswerOnError
                  [] OTHER -> stored(AnswerReply'.text)
          /\ op' = "generate_answer" =>
                /\ out'.ret = chatbot'.correct_answer
                /\ Len(out'.sent) = 1
          /\ chatbot'.current_question = chatbot.current_question
          /\ answer_for' = chatbot.current_question

\* C15 (as claimed): generate_answer without a question returns "No question
\* available." with no model call and no change; with a question it leaves a
\* non-empty stored answer in every outcome: one fixed sentence after a
\* content-filter failure, another after any other failure, and the reply
\* without a leading "Answer:" label otherwise.
C15_AnswerNeverEmpty ==
    [][ /\ AnswerNeedsQuestion
        /\ AnswerStored(LeadingLabelRemoved)
        /\ (AnswerGenerated' /\ chatbot.current_question # <<>>)
              => chatbot'.correct_answer # <<>>
        /\ AnswerOnStop # AnswerOnError ]_vars

\* C15 (amended): the same, except that a reply is stored trimmed and, when
\* it then starts with "Answer:", with every "Answer:" in it removed and
\* trimmed again; the stored answer is non-empty after either failure, and
\* after a reply exactly when something is left of it.
C15_AnswerStored ==
    [][ /\ AnswerNeedsQuestion
        /\ AnswerStored(AllLabelsRemoved)
        /\ ( /\ AnswerGenerated'
             /\ chatbot.current_question # <<>>
             /\ AnswerReply'.kind # "text" ) => chatbot'.correct_answer # <<>>
        /\ AnswerOnStop # AnswerOnError ]_vars

C15_Witness ==
    /\ op = "generate_answer"
    /\ chatbot.current_question = ScenarioQuestion
    /\ input.o = Text(AnswerLabel \o Sp \o A3 \o Sp \o AnswerLabel)
    /\ chatbot.correct_answer = A3
    /\ out.ret = A3

\* the grading call of the evaluation just made failed
GradingFailed == Evaluated /\ input.oe \in Failures

\* C16: when the grading call fails, the result is {is_correct: False,
\* message: "Error evaluating answer: " + the failure text, correct_answer:
\* the stored answer, or "Answer not available" if that is empty}, without a
\* resource and without a lookup; the question is the one on entry and the
\* answer the one the session held when the grading call was made.
C16_GradingFailure ==
    [][ GradingFailed' =>
          LET before == IF AnswerMissing(chatbot)
                        THEN generate_answer(chatbot, input'.oa).self
                        ELSE chatbot
          IN  /\ out'.exc = "none"
              /\ out'.ret =
                    [is_correct |-> FALSE,
                     message |-> ErrorEvaluatingAnswer \o input'.oe.text,
                     correct_answer |->
                        IF chatbot'.correct_answer = <<>>
                        THEN AnswerNotAvailable
                        ELSE chatbot'.correct_answer]
              /\ out'.encoded = <<>>
              /\ out'.queries = 0
              /\ chatbot'.current_question = chatbot.current_question
              /\ chatbot'.correct_answer = before.correct_answer
              /\ ~AnswerMissing(chatbot) =>
                    chatbot'.correct_answer = chatbot.correct_answer
              /\ chatbot'.chat = before.chat ]_vars

C16_Witness ==
    /\ op = "api_submit_answer"
    /\ GradingFailed
    /\ input.oa = Text(<<>>)
    /\ input.oe = Failure
    /\ chatbot.current_question = ScenarioQuestion
    /\ chatbot.correct_answer = <<>>
    /\ response.body.evaluation.correct_answer = AnswerNotAvailable
    /\ response.body.evaluation.message = ErrorEvaluatingAnswer \o TimeoutText

\* the operations that set or clear the question
Generators ==
    { "generate_question", "generate_question_with_answer",
      "api_generate_question", "api_reset_chat" }

\* C19: an evaluation leaves current_question as it was and changes the
\* stored answer only if it was empty on entry; the question set is replaced
\* by a generate call or a reset only, so it can be evaluated again after any
\* verdict or failure.
C19_EvaluationKeepsQuestion ==
    [][ /\ Evaluated' =>
           /\ chatbot'.current_question = chatbot.current_question
           /\ chatbot'.correct_answer # chatbot.correct_answer
                 => chatbot.correct_answer = <<>>
        /\ chatbot'.current_question # chatbot.current_question
              => op' \in Generators ]_vars

C19_Witness ==
    /\ op = "evaluate_answer"
    /\ Graded
    /\ out.ret.is_correct
    /\ chatbot.chat = MaxTranscript
    /\ chatbot.current_question = ScenarioQuestion
    /\ chatbot.correct_answer = ScenarioAnswer

\* C17: a reset that completes while an evaluation is in progress makes a new
\* session and rebinds chatbot; it changes neither the session the evaluation
\* was called on nor the evaluation, which goes on reading that replaced
\* session: its question test, the question and the answer of its grading
\* prompt and the correct_answer it returns.  So an evaluation can finish
\* with a result graded against the question of a session already replaced.
C17_EvaluationOutlivesReset ==
    [][ /\ (rst.pc = "start" /\ rst'.pc = "done") =>
              /\ sub' = sub
              /\ \A i \in 1..Len(sessions) : sessions'[i] = sessions[i]
              /\ bound' # bound
        /\ (sub.pc = "93" /\ sub'.pc # "93") =>
              (sub'.pc = "done" <=> sessions[sub.self].current_question = <<>>)
        /\ (sub.pc = "100" /\ sub'.pc = "102") =>
              sub'.question = sessions[sub.self].current_question
        /\ (sub.pc = "102" /\ sub'.pc = "108") =>
              sub'.prompt = EvaluationPrompt(sub.question, ScenarioAnswer,
                               sessions[sub.self].correct_answer)
        /\ (sub.pc = "109" /\ sub'.pc # "109") =>
              sub'.ret.correct_answer = sessions[sub.self].correct_answer
      ]_vars

C17_Witness ==
    /\ rst.pc = "done"
    /\ rst.mid
    /\ sub.pc = "done"
    /\ gen.pc = "start"
    /\ sub.self # bound
    /\ sessions[bound] = ChatbotAPI
    /\ sub.oe = Text(ReplyIncorrectExplained)
    /\ sub.prompt.question = ScenarioQuestion
    /\ sub.ret = [is_correct |-> FALSE, message |-> ReplyIncorrectExplained,
                  correct_answer |-> ScenarioAnswer]

\* C18 (as claimed): with a generate-question and a submit-answer request
\* running concurrently, the question and the answer of the grading prompt
\* were produced together, and so were that question and the correct_answer
\* returned.
C18_ConsistentPair ==
    /\ sub.prompt # NoValue =>
          [question |-> sub.prompt.question,
           answer |-> sub.prompt.correct_answer] \in generations
    /\ (sub.pc = "done" /\ sub.prompt # NoValue) =>
          [question |-> sub.prompt.question,
           answer |-> sub.ret.correct_answer] \in generations
====
